---- MODULE Spec2Model ----
(***************************************************************************)
(* Model of src/src/components/ScreenerTab.tsx: the swing-trading screener *)
(* component.  Two parts are modelled:                                     *)
(*   - getSwingTradingScore, the pure scoring function (lines 53-92), and  *)
(*     the table body that maps it over the results list (lines 235-295);  *)
(*   - the component state (results, loading) and runScreener (lines       *)
(*     7-35), started by the mount effect and by the Run Screener button.  *)
(* Numbers are modelled as integers: every constant the scoring function   *)
(* compares against or adds is an integer, so integer inputs on both sides *)
(* of each threshold exercise every branch.  The display-only fields of a  *)
(* ScreenerResult (change, marketCap, pe) are left out of the records.     *)
(***************************************************************************)
EXTENDS Integers, Sequences, FiniteSets, TLC

\* Largest price / moving-average value of the scoring inputs.
MaxPrice == 3
\* Longest results list the provider returns.
MaxLen == 2
\* Most runScreener invocations in one behaviour.
MaxInvocations == 3

VARIABLES
    results,      \* useState<ScreenerResult[]>([])            (line 7)
    loading,      \* useState(false)                           (line 8)
    mounted,      \* has the mount effect run                  (lines 21-23)
    invocations,  \* runScreener calls, in the order started   (lines 25-35)
    console,      \* lines written by console.error            (line 31)
    rows,         \* the <tbody> rows of the current render    (lines 211-299)
    rendered,     \* every row shown so far
    input,        \* scoring: the snapshot passed to getSwingTradingScore
    analysis,     \* scoring: <<>> or <<its return value>>
    earlier       \* scoring: <<>> or <<the previous call: snapshot, result>>

compVars == <<results, loading, mounted, invocations, console, rows, rendered>>
scoreVars == <<input, analysis, earlier>>
vars == <<results, loading, mounted, invocations, console, rows, rendered,
          input, analysis, earlier>>

(***************************************************************************)
(* getSwingTradingScore                                                    *)
(***************************************************************************)

MathAbs(x) == IF x < 0 THEN -x ELSE x

MathMax(a, b) == IF a >= b THEN a ELSE b

MathMin(a, b) == IF a <= b THEN a ELSE b

\* Mutant: the rsi is validated first, and a value outside [0,100] is left
\* unscored.
rsiScoreValidated(result) ==
    IF result.rsi < 0 \/ result.rsi > 100 THEN 0
    ELSE IF result.rsi >= 30 /\ result.rsi <= 70 THEN 20
    ELSE IF result.rsi < 30 THEN 30
    ELSE -20

\* Lines 57-59: the rsi adjustment.
rsiScore(result) ==
    IF result.rsi >= 30 /\ result.rsi <= 70 THEN 20
    ELSE IF result.rsi < 30 THEN 30
    ELSE -20

\* Mutant: the sma20 comparison is turned around.
trendScoreInverted(result) ==
      (IF result.price < result.sma20 THEN 15 ELSE 0)
    + (IF result.price > result.sma50 THEN 10 ELSE 0)
    + (IF result.sma20 > result.sma50 THEN 15 ELSE 0)

\* Lines 62-64: price against the moving averages.
trendScore(result) ==
      (IF result.price > result.sma20 THEN 15 ELSE 0)
    + (IF result.price > result.sma50 THEN 10 ELSE 0)
    + (IF result.sma20 > result.sma50 THEN 15 ELSE 0)

\* Mutant: the volume thresholds are inclusive.
volumeScoreInclusive(result) ==
    IF result.volume >= 1000000 THEN 10
    ELSE IF result.volume >= 500000 THEN 5
    ELSE 0

\* Lines 67-68: the volume adjustment.
volumeScore(result) ==
    IF result.volume > 1000000 THEN 10
    ELSE IF result.volume > 500000 THEN 5
    ELSE 0

\* Line 71: the momentum adjustment.
momentumScore(result) ==
    IF MathAbs(result.changePercent) > 2 THEN 10 ELSE 0

\* Mutant: the overbought penalty is taken twice.
rawScoreHeavyPenalty(result) ==
    50 + rsiScore(result) + (IF result.rsi > 70 THEN -20 ELSE 0)
       + trendScore(result) + volumeScore(result) + momentumScore(result)

\* Lines 54-71: the score before clamping.
rawScore(result) ==
    50 + rsiScore(result) + trendScore(result) + volumeScore(result)
       + momentumScore(result)

\* Mutant: the WEAK bracket is extended up to the BUY threshold.
signalOfNoGap(score) ==
    IF score >= 80 THEN "STRONG BUY"
    ELSE IF score >= 65 THEN "BUY"
    ELSE IF score <= 35 THEN "SELL"
    ELSE IF score < 65 THEN "WEAK"
    ELSE "HOLD"

\* Lines 74-89: the signal, by the if / else-if chain.
signalOf(score) ==
    IF score >= 80 THEN "STRONG BUY"
    ELSE IF score >= 65 THEN "BUY"
    ELSE IF score <= 35 THEN "SELL"
    ELSE IF score <= 50 THEN "WEAK"
    ELSE "HOLD"

\* Lines 75-88: the colour class set next to the signal.
colorOf(score) ==
    IF score >= 80 THEN "text-success-400"
    ELSE IF score >= 65 THEN "text-success-300"
    ELSE IF score <= 35 THEN "text-danger-400"
    ELSE IF score <= 50 THEN "text-warning-400"
    ELSE "text-neutral-400"

\* Mutant: the score is returned without the clamp.
getSwingTradingScoreUnclamped(result) ==
    LET score == rawScore(result)
    IN  [score |-> score, signal |-> signalOf(score), color |-> colorOf(score)]

\* Lines 53-92.
getSwingTradingScore(result) ==
    LET score == rawScore(result)
    IN  [score  |-> MathMax(0, MathMin(100, score)),
         signal |-> signalOf(score),
         color  |-> colorOf(score)]

(***************************************************************************)
(* The scoring inputs                                                      *)
(***************************************************************************)

\* rsi values on both sides of 30 and 70, and outside [0,100].
RsiValues == {-10, 0, 29, 30, 70, 71, 100, 110}

\* volumes on both sides of 500,000 and 1,000,000.
VolumeValues == {0, 500000, 500001, 1000000, 1000001}

\* changePercent values on both sides of -2 and 2.
ChangeValues == {-3, -2, 0, 2, 3}

Snapshots ==
    [symbol: {"SYM"}, rsi: RsiValues, price: 1..MaxPrice, sma20: 1..MaxPrice,
     sma50: 1..MaxPrice, volume: VolumeValues, changePercent: ChangeValues]

\* A placeholder for `input` while the component is modelled.
NoSnapshot ==
    [symbol |-> "", rsi |-> 0, price |-> 1, sma20 |-> 1, sma50 |-> 1,
     volume |-> 0, changePercent |-> 0]

(***************************************************************************)
(* The component: state, render, runScreener                               *)
(***************************************************************************)

\* The snapshots the provider returns: one scored 100, one 30, one 60.
Tickers ==
    { [symbol |-> "AAA", rsi |-> 45, price |-> 110, sma20 |-> 100,
       sma50 |-> 95, volume |-> 2000000, changePercent |-> 4],
      [symbol |-> "BBB", rsi |-> 75, price |-> 90, sma20 |-> 95,
       sma50 |-> 100, volume |-> 100000, changePercent |-> 0],
      [symbol |-> "CCC", rsi |-> 75, price |-> 110, sma20 |-> 100,
       sma50 |-> 105, volume |-> 600000, changePercent |-> 1] }

\* What IBService.getScreenerResults(filters) resolves to (line 28).
ProviderData == UNION { [1..n -> Tickers] : n \in 0..MaxLen }

\* What IBService.getScreenerResults(filters) rejects with (lines 28, 30).
ProviderErrors == {"NetworkError", "Timeout"}

Range(f) == { f[i] : i \in DOMAIN f }

\* Mutant: the rows are sorted by score, highest first, before display.
renderRowsSorted(list) ==
    LET n == Len(list)
        p == CHOOSE q \in [1..n -> 1..n] :
                 /\ \A i, j \in 1..n : i # j => q[i] # q[j]
                 /\ \A i, j \in 1..n : i < j =>
                        getSwingTradingScore(list[q[i]]).score
                            >= getSwingTradingScore(list[q[j]]).score
    IN  [index \in 1..n |->
            [result        |-> list[p[index]],
             swingAnalysis |-> getSwingTradingScore(list[p[index]])]]

\* Mutant: the running score is declared outside the callback and not
\* reset, so a row starts from the score of the row before it.
renderRowsShared(list) ==
    [index \in 1..Len(list) |->
        [result        |-> list[index],
         swingAnalysis |->
            IF index = 1 THEN getSwingTradingScore(list[index])
            ELSE LET score == getSwingTradingScore(list[index - 1]).score
                              + rawScore(list[index]) - 50
                 IN  [score  |-> MathMax(0, MathMin(100, score)),
                      signal |-> signalOf(score),
                      color  |-> colorOf(score)]]]

\* Lines 235-295: results.map, one row per result, each with its analysis.
renderRows(list) ==
    [index \in 1..Len(list) |->
        [result        |-> list[index],
         swingAnalysis |-> getSwingTradingScore(list[index])]]

\* Lines 211-299: the shimmer placeholder while loading, else the table.
tableBody(list, isLoading) == IF isLoading THEN <<>> ELSE renderRows(list)

\* The re-render that follows the state updates of a handler.
Render ==
    /\ rows' = tableBody(results', loading')
    /\ rendered' = rendered \cup Range(rows')

\* Lines 25-28: runScreener up to the await of the provider call.
runScreener ==
    /\ Len(invocations) < MaxInvocations
    /\ loading' = TRUE
    /\ invocations' = Append(invocations,
           [status |-> "awaiting", calls |-> 1, providerError |-> "none",
            thrown |-> "none"])
    /\ UNCHANGED <<results, console>>
    /\ Render

\* Lines 21-23: the mount effect.
useEffectMount ==
    /\ ~mounted
    /\ mounted' = TRUE
    /\ runScreener

\* Lines 99-106: the Run Screener button, disabled while loading.
onClick ==
    /\ ~loading
    /\ UNCHANGED mounted
    /\ runScreener

\* Lines 28-29, 32-34: the provider call of invocation i resolves.
runScreenerResolved(i, data) ==
    /\ invocations[i].status = "awaiting"
    /\ results' = data
    /\ loading' = FALSE
    /\ invocations' = [invocations EXCEPT ![i].status = "fulfilled"]
    /\ UNCHANGED <<console, mounted>>
    /\ Render

\* Mutant: the catch block calls the provider again.
runScreenerRejectedRetry(i, error) ==
    /\ invocations[i].status = "awaiting"
    /\ invocations[i].calls < 3
    /\ console' = console \cup {<<"Failed to run screener:", error>>}
    /\ invocations' = [invocations EXCEPT ![i].calls = @ + 1,
                                          ![i].providerError = error]
    /\ UNCHANGED <<results, loading, mounted>>
    /\ Render

\* Lines 30-34: the provider call of invocation i rejects.
runScreenerRejected(i, error) ==
    /\ invocations[i].status = "awaiting"
    /\ console' = console \cup {<<"Failed to run screener:", error>>}
    /\ loading' = FALSE
    /\ invocations' = [invocations EXCEPT ![i].status = "fulfilled",
                                          ![i].providerError = error]
    /\ UNCHANGED <<results, mounted>>
    /\ Render

\* Lines 7-8 and the first render.
CompInit ==
    /\ results = <<>>
    /\ loading = FALSE
    /\ mounted = FALSE
    /\ invocations = <<>>
    /\ console = {}
    /\ rows = <<>>
    /\ rendered = {}

Init ==
    /\ CompInit
    /\ input = NoSnapshot
    /\ analysis = <<>>
    /\ earlier = <<>>

Next ==
    \/ useEffectMount /\ UNCHANGED scoreVars
    \/ onClick /\ UNCHANGED scoreVars
    \/ \E i \in DOMAIN invocations, data \in ProviderData :
           runScreenerResolved(i, data) /\ UNCHANGED scoreVars
    \/ \E i \in DOMAIN invocations, error \in ProviderErrors :
           runScreenerRejected(i, error) /\ UNCHANGED scoreVars

Spec == Init /\ [][Next]_vars

(***************************************************************************)
(* The scoring function on its own                                         *)
(***************************************************************************)

\* A call of getSwingTradingScore on the current snapshot (line 236).
Evaluate ==
    /\ analysis = <<>>
    /\ analysis' = <<getSwingTradingScore(input)>>
    /\ UNCHANGED <<input, earlier>>

\* The next snapshot: the same symbol at price p, all else unchanged.
Reprice(p) ==
    /\ analysis # <<>>
    /\ earlier' = <<[snap |-> input, res |-> analysis[1]]>>
    /\ input' = [input EXCEPT !.price = p]
    /\ analysis' = <<>>

ScoreInit ==
    /\ CompInit
    /\ input \in Snapshots
    /\ analysis = <<>>
    /\ earlier = <<>>

ScoreNext ==
    \/ Evaluate /\ UNCHANGED compVars
    \/ \E p \in 1..MaxPrice : Reprice(p) /\ UNCHANGED compVars

ScoreSpec == ScoreInit /\ [][ScoreNext]_vars

(***************************************************************************)
(* Properties                                                              *)
(***************************************************************************)

Signals == {"STRONG BUY", "BUY", "HOLD", "WEAK", "SELL"}

\* C1: the score returned for a snapshot is 50 + R + T + V + M clamped to
\* [0,100], with R = +20 for 30 <= rsi <= 70, +30 for rsi < 30, else -20;
\* T = 15 if price > sma20, plus 10 if price > sma50, plus 15 if sma20 >
\* sma50; V = +10 for volume > 1,000,000, else +5 for volume > 500,000, else
\* 0; M = +10 if changePercent > 2 or changePercent < -2, else 0.
C1_ScoreFormula ==
    analysis # <<>> =>
        LET R == IF 30 <= input.rsi /\ input.rsi <= 70 THEN 20
                 ELSE IF input.rsi < 30 THEN 30 ELSE -20
            T ==   15 * (IF input.price > input.sma20 THEN 1 ELSE 0)
                 + 10 * (IF input.price > input.sma50 THEN 1 ELSE 0)
                 + 15 * (IF input.sma20 > input.sma50 THEN 1 ELSE 0)
            V == IF input.volume > 1000000 THEN 10
                 ELSE IF input.volume > 500000 THEN 5 ELSE 0
            M == IF input.changePercent > 2 \/ input.changePercent < -2
                 THEN 10 ELSE 0
            sum == 50 + R + T + V + M
        IN  analysis[1].score =
                (IF sum < 0 THEN 0 ELSE IF sum > 100 THEN 100 ELSE sum)

\* C1 witness: a snapshot on every boundary at once (rsi 30, volume
\* 1,000,000, changePercent -2, price = sma20 = sma50) scored 50 + 20 + 5.
C1_Witness ==
    /\ analysis # <<>>
    /\ input.rsi = 30 /\ input.volume = 1000000 /\ input.changePercent = -2
    /\ input.price = input.sma20 /\ input.sma20 = input.sma50
    /\ analysis[1].score = 75

\* C2: the returned signal is one of the five signals and is the one the
\* threshold chain (>= 80, >= 65, <= 35, <= 50, else HOLD) gives for the
\* returned, clamped score; a score between 50 and 65 carries HOLD.
C2_SignalFromReturnedScore ==
    analysis # <<>> =>
        LET s == analysis[1].score
        IN  /\ analysis[1].signal \in Signals
            /\ analysis[1].signal =
                   (IF s >= 80 THEN "STRONG BUY"
                    ELSE IF s >= 65 THEN "BUY"
                    ELSE IF s <= 35 THEN "SELL"
                    ELSE IF s <= 50 THEN "WEAK"
                    ELSE "HOLD")
            /\ (50 < s /\ s < 65) => analysis[1].signal = "HOLD"

\* C2 witness: a snapshot scored 60 and signalled HOLD.
C2_Witness ==
    /\ analysis # <<>>
    /\ analysis[1].score = 60
    /\ analysis[1].signal = "HOLD"

\* C3: the returned score is an integer between 0 and 100.
C3_ScoreBounded ==
    analysis # <<>> => analysis[1].score \in 0..100

\* C3 witness: the adjustments add up to more than 100 and 100 is returned.
C3_Witness ==
    /\ analysis # <<>>
    /\ rawScore(input) > 100
    /\ analysis[1].score = 100

\* C4: the table has one row per result, the i-th row showing the i-th
\* result with its own analysis; the rows are never re-ordered by score.
C4_OrderPreserved ==
    ~loading =>
        /\ Len(rows) = Len(results)
        /\ \A i \in 1..Len(results) :
               /\ rows[i].result = results[i]
               /\ rows[i].swingAnalysis = getSwingTradingScore(results[i])

\* C4 witness: a response of two results, the lower-scored one first, is on
\* display in that order.
C4_Witness ==
    /\ ~loading
    /\ Len(results) = 2
    /\ Len(rows) = 2
    /\ rows[1].result = results[1]
    /\ rows[1].swingAnalysis.score < rows[2].swingAnalysis.score

\* C5: of two snapshots that differ only in price, the first below sma20 and
\* the second above it, the second scores at least as high as the first.
C5_MonotonicTrend ==
    (/\ analysis # <<>>
     /\ earlier # <<>>
     /\ [earlier[1].snap EXCEPT !.price = input.price] = input
     /\ earlier[1].snap.price < input.sma20
     /\ input.price > input.sma20)
    => analysis[1].score >= earlier[1].res.score

\* C5 witness: the price moved from below sma20 to above it between two
\* calls, and the score rose.
C5_Witness ==
    /\ analysis # <<>>
    /\ earlier # <<>>
    /\ earlier[1].snap.price < input.sma20
    /\ input.price > input.sma20
    /\ analysis[1].score > earlier[1].res.score

\* C6 as stated: an rsi outside [0,100] matches none of the rsi brackets, so
\* the score carries no rsi adjustment.
C6_NoBracketMatches ==
    (analysis # <<>> /\ (input.rsi < 0 \/ input.rsi > 100)) =>
        analysis[1].score =
            MathMax(0, MathMin(100, 50 + trendScore(input)
                                       + volumeScore(input)
                                       + momentumScore(input)))

\* C6 as amended: for an rsi outside [0,100] a score in [0,100] and a signal
\* are still returned; a negative rsi takes the rsi < 30 bracket (+30, hence
\* STRONG BUY) and an rsi above 100 takes the final bracket (-20).
C6_OutOfRangeRsi ==
    (analysis # <<>> /\ (input.rsi < 0 \/ input.rsi > 100)) =>
        /\ analysis[1].score \in 0..100
        /\ analysis[1].signal \in Signals
        /\ analysis[1].score =
               MathMax(0, MathMin(100,
                   50 + (IF input.rsi < 0 THEN 30 ELSE -20)
                      + trendScore(input) + volumeScore(input)
                      + momentumScore(input)))
        /\ input.rsi < 0 => analysis[1].signal = "STRONG BUY"

\* C6 witness: a negative rsi scored with the oversold bonus alone.
C6_Witness ==
    /\ analysis # <<>>
    /\ input.rsi < 0
    /\ analysis[1].score = 80
    /\ analysis[1].signal = "STRONG BUY"

C8_SurfacedToCaller ==
    \A i \in DOMAIN invocations :
        invocations[i].providerError # "none" =>
            /\ invocations[i].status = "rejected"
            /\ invocations[i].thrown = invocations[i].providerError
            /\ invocations[i].calls = 1

\* C8 as amended: a failure of the provider call is caught in runScreener
\* and written, unmodified, to the console; the caller sees runScreener
\* complete normally; the provider is called once per invocation.
C8_CaughtAndLogged ==
    \A i \in DOMAIN invocations :
        /\ invocations[i].calls = 1
        /\ invocations[i].thrown = "none"
        /\ invocations[i].providerError # "none" =>
               /\ invocations[i].status = "fulfilled"
               /\ <<"Failed to run screener:", invocations[i].providerError>>
                      \in console

\* C8 witness: an invocation whose provider call failed.
C8_Witness ==
    \E i \in DOMAIN invocations :
        /\ invocations[i].providerError = "Timeout"
        /\ invocations[i].status = "fulfilled"

\* C9: SELL, WEAK and HOLD are returned only when rsi is above 70; rsi < 30
\* gives STRONG BUY; 30 <= rsi <= 70 gives BUY or STRONG BUY; the score
\* before clamping is at least 30, so the lower clamp bound is never active.
C9_PenaltyOnlySignals ==
    analysis # <<>> =>
        /\ analysis[1].signal \in {"SELL", "WEAK", "HOLD"} => input.rsi > 70
        /\ input.rsi < 30 => analysis[1].signal = "STRONG BUY"
        /\ (30 <= input.rsi /\ input.rsi <= 70) =>
               analysis[1].signal \in {"BUY", "STRONG BUY"}
        /\ rawScore(input) >= 30
        /\ analysis[1].score >= 30
        /\ analysis[1].score = MathMin(100, rawScore(input))

\* C9 witness: the lowest score there is, 30, for an overbought snapshot
\* with no other adjustment, signalled SELL.
C9_Witness ==
    /\ analysis # <<>>
    /\ input.rsi > 70
    /\ analysis[1].score = 30
    /\ analysis[1].signal = "SELL"

\* C10: loading is true exactly while a provider request issued by
\* runScreener is unsettled.
C10_LoadingIffPending ==
    loading <=> (\E i \in DOMAIN invocations :
                    invocations[i].status = "awaiting")

====
